---- MODULE Spec2Model ----
(***************************************************************************)
(* Instruction-to-event decoding of the pumpfun and spl_token substreams.  *)
(*                                                                         *)
(* Rust values are represented as follows.                                 *)
(*   Option<T>         None = << >>, Some(x) = << x >>                     *)
(*   Result<T, E>      Ok(v)   = [kind |-> "Ok",  value |-> v]             *)
(*                     Err(e)  = [kind |-> "Err", error |-> e]             *)
(*   a panic (unwrap on None, index out of bounds) = [kind |-> "Panic"]    *)
(*   Vec<T>            a sequence                                          *)
(*   instruction data  [discriminant |-> d, complete |-> b, <fields>]      *)
(***************************************************************************)
EXTENDS Integers, Sequences, FiniteSets, TLC

VARIABLES
    program,        \* which crate runs: "pumpfun" (parse_block) or "spl_token" (parse_transaction)
    tx_index,       \* transactions taken from block.transactions() so far
    transaction,    \* the transaction being parsed
    pc,             \* position: "block", "tx_loop", "tx_return", "done", "instruction"
    instructions,   \* instructions.flattened() of the current transaction
    i,              \* index of the next instruction of the loop over flattened()
    context,        \* TransactionContext: signature and running token-account ledger
    events,         \* events of the current transaction
    tx_result,      \* what parse_transaction returned (<< >> while it runs)
    block_events,   \* parse_block's accumulator
    block_result,   \* what parse_block returned (<< >> while it runs)
    calls,          \* calls made for the current transaction, in order
    history,        \* what each finished call of parse_transaction returned, in order
    arg,            \* argument of a direct parse_instruction call
    ret             \* its result (<< >> before the call)

vars == <<program, tx_index, transaction, pc, instructions, i, context,
          events, tx_result, block_events, block_result, calls, history, arg, ret>>

-----------------------------------------------------------------------------
(* Bounds of the model *)

MaxTransactions == 2
MaxTopLevel == 2
MaxChildren == 2
MaxLogLines == 2

-----------------------------------------------------------------------------
(* Program ids *)

PUMPFUN_PROGRAM_ID == "pumpfun"
TOKEN_PROGRAM_ID == "token"
SYSTEM_PROGRAM_ID == "system"
OTHER_PROGRAM_ID == "other"

-----------------------------------------------------------------------------
(* Option and Result *)

None == << >>
Some(x) == << x >>

Ok(v) == [kind |-> "Ok", value |-> v]
Err(e) == [kind |-> "Err", error |-> e]
Panic == [kind |-> "Panic"]

IsOk(r) == r.kind = "Ok"
IsErr(r) == r.kind = "Err"
IsPanic(r) == r.kind = "Panic"

-----------------------------------------------------------------------------
(* Instructions, logs, ledger *)

Instruction(pid, data, accounts, inner, logs) ==
    [program_id |-> pid, data |-> data, accounts |-> accounts,
     inner_instructions |-> inner, logs |-> logs]

\* The values a trade log record carries.
TradeRecord ==
    [variant |-> "Trade", sol_amount |-> 7, virtual_sol_reserves |-> 31,
     virtual_token_reserves |-> 32, real_sol_reserves |-> 33, real_token_reserves |-> 34]

TextLog == [kind |-> "Text", decodable |-> FALSE, discriminant |-> "none"]
DataLog(decodable, discriminant) ==
    [kind |-> "Data", decodable |-> decodable, discriminant |-> discriminant]

\* DataLog::data(): the bytes of a data line, when they can be extracted.
DataLog_data(log) ==
    IF log.decodable THEN Ok(log.discriminant) ELSE Err("undecodable data log")

\* PumpfunLog::unpack: the log-record schema.
PumpfunLog_unpack(bytes) ==
    CASE bytes = "Trade" -> Ok(TradeRecord)
      [] bytes \in {"Create", "Complete", "SetParams"} -> Ok([variant |-> bytes])
      [] OTHER -> Err("Invalid log")

\* PumpfunInstruction::unpack.
PumpfunVariants == {"Initialize", "SetParams", "Create", "Buy", "Sell", "Withdraw", "Unsupported"}

PumpfunInstruction_unpack(data) ==
    IF data.discriminant \notin PumpfunVariants THEN Err("Unknown instruction discriminant")
    ELSE IF ~data.complete THEN Err("Truncated payload")
    ELSE Ok(data)

\* TokenInstruction::unpack.
TokenVariants ==
    {"InitializeMint", "InitializeMint2", "InitializeAccount", "InitializeAccount2",
     "InitializeAccount3", "InitializeMultisig", "InitializeMultisig2", "Transfer",
     "TransferChecked", "Approve", "ApproveChecked", "Revoke", "SetAuthority", "MintTo",
     "MintToChecked", "Burn", "BurnChecked", "CloseAccount", "FreezeAccount", "ThawAccount",
     "InitializeImmutableOwner", "SyncNative", "AmountToUiAmount", "GetAccountDataSize",
     "UiAmountToAmount"}

TokenInstruction_unpack(data) ==
    IF data.discriminant \notin TokenVariants THEN Err("Invalid instruction")
    ELSE IF ~data.complete THEN Err("Invalid instruction")
    ELSE Ok(data)

\* TransactionContext::get_token_account: the snapshot of a tracked address.
get_token_account(ctx, address) ==
    IF address \in DOMAIN ctx.token_accounts THEN Some(ctx.token_accounts[address]) ELSE None

\* From<&utils::spl_token::TokenAccount> for the event's TokenAccount.
TokenAccountFrom(value) ==
    [address |-> value.address, owner |-> value.owner, mint |-> value.mint,
     pre_balance |-> value.pre_balance, post_balance |-> value.post_balance]

\* TransactionContext::update_balance: a token transfer between tracked accounts
\* moves the running balances; any other instruction leaves the ledger alone.
update_balance(ctx, instruction) ==
    LET d == instruction.data
        acc == instruction.accounts
        delta == IF d.discriminant = "TransferChecked" THEN 1 ELSE 0
        ta == ctx.token_accounts
    IN  IF /\ instruction.program_id = TOKEN_PROGRAM_ID
           /\ d.discriminant \in {"Transfer", "TransferChecked"}
           /\ d.complete
           /\ Len(acc) >= 2 + delta
           /\ acc[1] \in DOMAIN ta
           /\ acc[2 + delta] \in DOMAIN ta
           /\ acc[1] # acc[2 + delta]
        THEN [ctx EXCEPT
                !.token_accounts =
                    [a \in DOMAIN ta |->
                        IF a = acc[1]
                        THEN [ta[a] EXCEPT !.pre_balance = ta[a].post_balance,
                                           !.post_balance = ta[a].post_balance - d.amount]
                        ELSE IF a = acc[2 + delta]
                        THEN [ta[a] EXCEPT !.pre_balance = ta[a].post_balance,
                                           !.post_balance = ta[a].post_balance + d.amount]
                        ELSE ta[a]]]
        ELSE ctx

\* StructuredInstructions::flattened: pre-order over the instruction tree.
RECURSIVE flattened(_)
flattened(instrs) ==
    IF instrs = << >> THEN << >>
    ELSE <<Head(instrs)>> \o flattened(Head(instrs).inner_instructions)
                          \o flattened(Tail(instrs))

\* get_context: the signature and the token accounts of the transaction.
get_context(tx) == [signature |-> tx.signature, token_accounts |-> tx.token_accounts]

\* Iterator::find over a sequence: index of the first element satisfying P, 0 if none.
FindFirst(seq, P(_)) ==
    IF \E k \in 1..Len(seq) : P(seq[k])
    THEN CHOOSE k \in 1..Len(seq) : P(seq[k]) /\ \A j \in 1..(k - 1) : ~P(seq[j])
    ELSE 0

-----------------------------------------------------------------------------
(* spl_token: the event synthesizers *)

\* instruction.accounts()[k], k counted from 0 as in the source.
HasAccount(instruction, k) == Len(instruction.accounts) >= k + 1
Account(instruction, k) == instruction.accounts[k + 1]

\* context.get_token_account(&instruction.accounts()[k]).unwrap() does not panic.
Tracked(instruction, ctx, k) ==
    HasAccount(instruction, k) /\ get_token_account(ctx, Account(instruction, k)) # None

\* ... and the snapshot it yields, converted by .into().
Snapshot(instruction, ctx, k) ==
    TokenAccountFrom(get_token_account(ctx, Account(instruction, k))[1])

spl_parse_initialize_mint_instruction(instruction, ctx, decimals, mint_authority, freeze_authority) ==
    IF ~HasAccount(instruction, 0) THEN Panic
    ELSE Ok([type |-> "InitializeMint", mint |-> Account(instruction, 0), decimals |-> decimals,
             mint_authority |-> mint_authority, freeze_authority |-> freeze_authority])

spl_parse_initialize_account_instruction(instruction, ctx, owner) ==
    IF ~Tracked(instruction, ctx, 0) THEN Panic
    ELSE Ok([type |-> "InitializeAccount", account |-> Some(Snapshot(instruction, ctx, 0))])

spl_parse_initialize_multisig_instruction(instruction, ctx, m, rent_sysvar_account) ==
    LET delta == IF rent_sysvar_account THEN 2 ELSE 1
    IN  IF ~HasAccount(instruction, 0) \/ Len(instruction.accounts) < delta THEN Panic
        ELSE Ok([type |-> "InitializeMultisig", multisig |-> Account(instruction, 0),
                 signers |-> SubSeq(instruction.accounts, delta + 1, Len(instruction.accounts)),
                 m |-> m])

spl_parse_transfer_instruction_inner(instruction, ctx, amount, expected_decimals) ==
    LET delta == IF expected_decimals = None THEN 0 ELSE 1
    IN  IF \/ ~Tracked(instruction, ctx, 0)
           \/ ~Tracked(instruction, ctx, 1 + delta)
           \/ ~HasAccount(instruction, 2 + delta)
        THEN Panic
        ELSE Ok([type |-> "Transfer",
                 source |-> Some(Snapshot(instruction, ctx, 0)),
                 destination |-> Some(Snapshot(instruction, ctx, 1 + delta)),
                 amount |-> amount,
                 authority |-> Account(instruction, 2 + delta)])

spl_parse_approve_instruction(instruction, ctx, amount, expected_decimals) ==
    LET delta == IF expected_decimals = None THEN 0 ELSE 1
    IN  IF ~Tracked(instruction, ctx, 0) \/ ~HasAccount(instruction, 1 + delta) THEN Panic
        ELSE Ok([type |-> "Approve", source |-> Some(Snapshot(instruction, ctx, 0)),
                 delegate |-> Account(instruction, 1 + delta), amount |-> amount])

spl_parse_revoke_instruction(instruction, ctx) ==
    IF ~Tracked(instruction, ctx, 0) THEN Panic
    ELSE Ok([type |-> "Revoke", source |-> Some(Snapshot(instruction, ctx, 0))])

spl_parse_set_authority_instruction(instruction, ctx, authority_type, new_authority) ==
    IF ~HasAccount(instruction, 1) THEN Panic
    ELSE Ok([type |-> "SetAuthority", mint |-> Account(instruction, 0),
             authority |-> Account(instruction, 1), authority_type |-> authority_type,
             new_authority |-> new_authority])

spl_parse_mint_to_instruction(instruction, ctx, amount) ==
    IF ~HasAccount(instruction, 0) \/ ~Tracked(instruction, ctx, 1) \/ ~HasAccount(instruction, 2)
    THEN Panic
    ELSE Ok([type |-> "MintTo", mint |-> Account(instruction, 0),
             destination |-> Some(Snapshot(instruction, ctx, 1)),
             mint_authority |-> Account(instruction, 2), amount |-> amount])

spl_parse_burn_instruction(instruction, ctx, amount) ==
    IF ~Tracked(instruction, ctx, 0) \/ ~HasAccount(instruction, 2) THEN Panic
    ELSE Ok([type |-> "Burn", source |-> Some(Snapshot(instruction, ctx, 0)),
             authority |-> Account(instruction, 2), amount |-> amount])

spl_parse_close_account_instruction(instruction, ctx) ==
    IF ~Tracked(instruction, ctx, 0) \/ ~HasAccount(instruction, 1) THEN Panic
    ELSE Ok([type |-> "CloseAccount", source |-> Some(Snapshot(instruction, ctx, 0)),
             destination |-> Account(instruction, 1)])

spl_parse_freeze_account_instruction(instruction, ctx) ==
    IF ~Tracked(instruction, ctx, 0) \/ ~HasAccount(instruction, 1) THEN Panic
    ELSE Ok([type |-> "FreezeAccount", source |-> Some(Snapshot(instruction, ctx, 0)),
             freeze_authority |-> Account(instruction, 1)])

spl_parse_thaw_account_instruction(instruction, ctx) ==
    IF ~Tracked(instruction, ctx, 0) \/ ~HasAccount(instruction, 1) THEN Panic
    ELSE Ok([type |-> "ThawAccount", source |-> Some(Snapshot(instruction, ctx, 0)),
             freeze_authority |-> Account(instruction, 1)])

spl_parse_initialize_immutable_owner_instruction(instruction, ctx) ==
    IF ~Tracked(instruction, ctx, 0) THEN Panic
    ELSE Ok([type |-> "InitializeImmutableOwner", account |-> Some(Snapshot(instruction, ctx, 0))])

spl_parse_sync_native_instruction(instruction, ctx) ==
    IF ~Tracked(instruction, ctx, 0) THEN Panic
    ELSE Ok([type |-> "SyncNative", account |-> Some(Snapshot(instruction, ctx, 0))])

\* event.map(|x| Some(Event::X(x))).map_err(|x| anyhow!(x)) followed by
\* .context("Failed to parse Token instruction")
SplWrap(event) ==
    CASE IsOk(event) -> Ok(Some(event.value))
      [] IsErr(event) -> Err("Failed to parse Token instruction")
      [] OTHER -> Panic

\* spl_token::parse_instruction
spl_parse_instruction(instruction, ctx) ==
    IF instruction.program_id # TOKEN_PROGRAM_ID THEN Err("Not a Token program instruction")
    ELSE
    LET unpacked == TokenInstruction_unpack(instruction.data) IN
    IF ~IsOk(unpacked) THEN Err("Failed to unpack Token instruction")
    ELSE
    LET u == unpacked.value
        v == u.discriminant
    IN  CASE v \in {"InitializeMint", "InitializeMint2"} ->
                SplWrap(spl_parse_initialize_mint_instruction(
                    instruction, ctx, u.decimals, u.mint_authority, u.freeze_authority))
          [] v = "InitializeAccount" ->
                SplWrap(spl_parse_initialize_account_instruction(instruction, ctx, None))
          [] v \in {"InitializeAccount2", "InitializeAccount3"} ->
                SplWrap(spl_parse_initialize_account_instruction(instruction, ctx, Some(u.owner)))
          [] v = "InitializeMultisig" ->
                SplWrap(spl_parse_initialize_multisig_instruction(instruction, ctx, u.m, TRUE))
          [] v = "InitializeMultisig2" ->
                SplWrap(spl_parse_initialize_multisig_instruction(instruction, ctx, u.m, FALSE))
          [] v = "Transfer" ->
                SplWrap(spl_parse_transfer_instruction_inner(instruction, ctx, u.amount, None))
          [] v = "TransferChecked" ->
                SplWrap(spl_parse_transfer_instruction_inner(
                    instruction, ctx, u.amount, Some(u.decimals)))
          [] v = "Approve" ->
                SplWrap(spl_parse_approve_instruction(instruction, ctx, u.amount, None))
          [] v = "ApproveChecked" ->
                SplWrap(spl_parse_approve_instruction(instruction, ctx, u.amount, Some(u.decimals)))
          [] v = "Revoke" -> SplWrap(spl_parse_revoke_instruction(instruction, ctx))
          [] v = "SetAuthority" ->
                SplWrap(spl_parse_set_authority_instruction(
                    instruction, ctx, u.authority_type, u.new_authority))
          [] v \in {"MintTo", "MintToChecked"} ->
                SplWrap(spl_parse_mint_to_instruction(instruction, ctx, u.amount))
          [] v \in {"Burn", "BurnChecked"} ->
                SplWrap(spl_parse_burn_instruction(instruction, ctx, u.amount))
          [] v = "CloseAccount" -> SplWrap(spl_parse_close_account_instruction(instruction, ctx))
          [] v = "FreezeAccount" -> SplWrap(spl_parse_freeze_account_instruction(instruction, ctx))
          [] v = "ThawAccount" -> SplWrap(spl_parse_thaw_account_instruction(instruction, ctx))
          [] v = "InitializeImmutableOwner" ->
                SplWrap(spl_parse_initialize_immutable_owner_instruction(instruction, ctx))
          [] v = "SyncNative" -> SplWrap(spl_parse_sync_native_instruction(instruction, ctx))
          [] v \in {"AmountToUiAmount", "GetAccountDataSize", "UiAmountToAmount"} -> Ok(None)

\* spl_token::parse_transfer_instruction (the public wrapper used by pumpfun)
spl_parse_transfer_instruction(instruction, ctx) ==
    LET r == spl_parse_instruction(instruction, ctx)
    IN  CASE IsPanic(r) -> Panic
          [] IsOk(r) /\ r.value # None /\ r.value[1].type = "Transfer" -> Ok(r.value[1])
          [] OTHER -> Err("Failed to parse transfer instruction.")

\* system_program_substream::parse_transfer_instruction
system_parse_transfer_instruction(instruction, ctx) ==
    IF /\ instruction.program_id = SYSTEM_PROGRAM_ID
       /\ instruction.data.discriminant = "Transfer"
       /\ instruction.data.complete
    THEN Ok([type |-> "Transfer", lamports |-> instruction.data.lamports])
    ELSE Err("Failed to parse system transfer instruction.")

-----------------------------------------------------------------------------
(* pumpfun: log extraction and the event synthesizers *)

\* The closure of find_map in parse_pumpfun_log: Some(bytes) for a data line whose
\* bytes can be extracted, None for any other line.
LogBytes(log) ==
    IF log.kind = "Data" /\ IsOk(DataLog_data(log)) THEN Some(DataLog_data(log).value) ELSE None

IsUsableLog(log) == LogBytes(log) # None

IsDataLog(log) == log.kind = "Data"

\* Mutant: the first data line decides, whether or not its bytes can be extracted.
parse_pumpfun_log_first_data_line(instruction) ==
    IF instruction.logs = None THEN Err("Failed to parse logs due to truncation")
    ELSE
    LET lines == instruction.logs[1]
        k == FindFirst(lines, IsDataLog)
    IN  IF k = 0 \/ LogBytes(lines[k]) = None THEN Err("Couldn't find data log.")
        ELSE PumpfunLog_unpack(LogBytes(lines[k])[1])

\* pumpfun::parse_pumpfun_log
parse_pumpfun_log(instruction) ==
    IF instruction.logs = None THEN Err("Failed to parse logs due to truncation")
    ELSE
    LET lines == instruction.logs[1]
        k == FindFirst(lines, IsUsableLog)
    IN  IF k = 0 THEN Err("Couldn't find data log.")
        ELSE PumpfunLog_unpack(LogBytes(lines[k])[1])

\* match parse_pumpfun_log(instruction) { Ok(PumpfunLog::Trade(trade)) => Some(trade), _ => None }
TradeOf(instruction) ==
    LET r == parse_pumpfun_log(instruction)
    IN  IF IsOk(r) /\ r.value.variant = "Trade" THEN Some(r.value) ELSE None

\* trade.as_ref().map(|x| x.<field>)
MapTrade(trade, field) == IF trade = None THEN None ELSE Some(trade[1][field])

IsSystemInstruction(x) == x.program_id = SYSTEM_PROGRAM_ID
IsTokenInstruction(x) == x.program_id = TOKEN_PROGRAM_ID

pumpfun_parse_initialize_instruction(instruction, ctx) ==
    IF ~HasAccount(instruction, 0) THEN Panic
    ELSE Ok([type |-> "Initialize", user |-> Account(instruction, 0)])

pumpfun_parse_set_params_instruction(instruction, ctx, set_params) ==
    IF ~HasAccount(instruction, 0) THEN Panic
    ELSE Ok([type |-> "SetParams", user |-> Account(instruction, 0),
             fee_recipient |-> set_params.fee_recipient,
             initial_virtual_token_reserves |-> set_params.initial_virtual_token_reserves,
             initial_virtual_sol_reserves |-> set_params.initial_virtual_sol_reserves,
             initial_real_token_reserves |-> set_params.initial_real_token_reserves,
             token_total_supply |-> set_params.token_total_supply,
             fee_basis_points |-> set_params.fee_basis_points])

\* Mutant: associated_bonding_curve is read from its own account position.
pumpfun_parse_create_separate_curves(instruction, ctx, create) ==
    IF ~HasAccount(instruction, 7) THEN Panic
    ELSE Ok([type |-> "Create", user |-> Account(instruction, 7),
             name |-> create.name, symbol |-> create.symbol, uri |-> create.uri,
             mint |-> Account(instruction, 0),
             bonding_curve |-> Account(instruction, 2),
             associated_bonding_curve |-> Account(instruction, 3),
             metadata |-> Account(instruction, 6)])

pumpfun_parse_create_instruction(instruction, ctx, create) ==
    IF ~HasAccount(instruction, 7) THEN Panic
    ELSE Ok([type |-> "Create", user |-> Account(instruction, 7),
             name |-> create.name, symbol |-> create.symbol, uri |-> create.uri,
             mint |-> Account(instruction, 0),
             bonding_curve |-> Account(instruction, 2),
             associated_bonding_curve |-> Account(instruction, 2),
             metadata |-> Account(instruction, 6)])

\* Mutant: the system transfer child is optional, sol_amount is left unset without it.
pumpfun_parse_buy_optional_system(instruction, ctx, buy) ==
    IF ~HasAccount(instruction, 6) THEN Panic
    ELSE
    LET children == instruction.inner_instructions
        s == FindFirst(children, IsSystemInstruction)
        system_transfer ==
            IF s = 0 THEN Ok([type |-> "None"])
            ELSE system_parse_transfer_instruction(children[s], ctx)
        t == FindFirst(children, IsTokenInstruction)
    IN
    IF ~IsOk(system_transfer) THEN system_transfer
    ELSE IF t = 0 THEN Panic
    ELSE
    LET token_transfer == spl_parse_transfer_instruction(children[t], ctx) IN
    IF ~IsOk(token_transfer) THEN token_transfer
    ELSE
    LET trade == TradeOf(instruction)
    IN  Ok([type |-> "Swap",
            user |-> Account(instruction, 6),
            mint |-> Account(instruction, 2),
            bonding_curve |-> Account(instruction, 3),
            sol_amount |-> IF s = 0 THEN None ELSE Some(system_transfer.value.lamports),
            token_amount |-> buy.amount,
            direction |-> "token",
            virtual_sol_reserves |-> MapTrade(trade, "virtual_sol_reserves"),
            virtual_token_reserves |-> MapTrade(trade, "virtual_token_reserves"),
            real_sol_reserves |-> MapTrade(trade, "real_sol_reserves"),
            real_token_reserves |-> MapTrade(trade, "real_token_reserves"),
            user_token_pre_balance |-> token_transfer.value.destination[1].pre_balance])

pumpfun_parse_buy_instruction(instruction, ctx, buy) ==
    IF ~HasAccount(instruction, 6) THEN Panic
    ELSE
    LET children == instruction.inner_instructions
        s == FindFirst(children, IsSystemInstruction)
    IN
    IF s = 0 THEN Err("No instruction with program_id == SYSTEM_PROGRAM_ID found")
    ELSE
    LET system_transfer == system_parse_transfer_instruction(children[s], ctx) IN
    IF ~IsOk(system_transfer) THEN system_transfer
    ELSE
    LET t == FindFirst(children, IsTokenInstruction) IN
    IF t = 0 THEN Panic
    ELSE
    LET token_transfer == spl_parse_transfer_instruction(children[t], ctx) IN
    IF ~IsOk(token_transfer) THEN token_transfer
    ELSE
    LET trade == TradeOf(instruction)
    IN  Ok([type |-> "Swap",
            user |-> Account(instruction, 6),
            mint |-> Account(instruction, 2),
            bonding_curve |-> Account(instruction, 3),
            sol_amount |-> Some(system_transfer.value.lamports),
            token_amount |-> buy.amount,
            direction |-> "token",
            virtual_sol_reserves |-> MapTrade(trade, "virtual_sol_reserves"),
            virtual_token_reserves |-> MapTrade(trade, "virtual_token_reserves"),
            real_sol_reserves |-> MapTrade(trade, "real_sol_reserves"),
            real_token_reserves |-> MapTrade(trade, "real_token_reserves"),
            user_token_pre_balance |-> token_transfer.value.destination[1].pre_balance])

\* Iterator::rfind over a sequence: index of the last element satisfying P, 0 if none.
FindLast(seq, P(_)) ==
    IF \E k \in 1..Len(seq) : P(seq[k])
    THEN CHOOSE k \in 1..Len(seq) : P(seq[k]) /\ \A j \in (k + 1)..Len(seq) : ~P(seq[j])
    ELSE 0

\* Mutant: the last token-program child is taken as the companion.
pumpfun_parse_sell_last_token_child(instruction, ctx, sell) ==
    IF ~HasAccount(instruction, 6) THEN Panic
    ELSE
    LET children == instruction.inner_instructions
        trade == TradeOf(instruction)
        t == FindLast(children, IsTokenInstruction)
    IN
    IF t = 0 THEN Panic
    ELSE
    LET token_transfer == spl_parse_transfer_instruction(children[t], ctx) IN
    IF ~IsOk(token_transfer) THEN token_transfer
    ELSE Ok([type |-> "Swap",
             user |-> Account(instruction, 6),
             mint |-> Account(instruction, 2),
             bonding_curve |-> Account(instruction, 3),
             token_amount |-> sell.amount,
             sol_amount |-> MapTrade(trade, "sol_amount"),
             direction |-> "sol",
             virtual_sol_reserves |-> MapTrade(trade, "virtual_sol_reserves"),
             virtual_token_reserves |-> MapTrade(trade, "virtual_token_reserves"),
             real_sol_reserves |-> MapTrade(trade, "real_sol_reserves"),
             real_token_reserves |-> MapTrade(trade, "real_token_reserves"),
             user_token_pre_balance |-> token_transfer.value.source[1].pre_balance])

pumpfun_parse_sell_instruction(instruction, ctx, sell) ==
    IF ~HasAccount(instruction, 6) THEN Panic
    ELSE
    LET children == instruction.inner_instructions
        trade == TradeOf(instruction)
        t == FindFirst(children, IsTokenInstruction)
    IN
    IF t = 0 THEN Panic
    ELSE
    LET token_transfer == spl_parse_transfer_instruction(children[t], ctx) IN
    IF ~IsOk(token_transfer) THEN token_transfer
    ELSE Ok([type |-> "Swap",
             user |-> Account(instruction, 6),
             mint |-> Account(instruction, 2),
             bonding_curve |-> Account(instruction, 3),
             token_amount |-> sell.amount,
             sol_amount |-> MapTrade(trade, "sol_amount"),
             direction |-> "sol",
             virtual_sol_reserves |-> MapTrade(trade, "virtual_sol_reserves"),
             virtual_token_reserves |-> MapTrade(trade, "virtual_token_reserves"),
             real_sol_reserves |-> MapTrade(trade, "real_sol_reserves"),
             real_token_reserves |-> MapTrade(trade, "real_token_reserves"),
             user_token_pre_balance |-> token_transfer.value.source[1].pre_balance])

pumpfun_parse_withdraw_instruction(instruction, ctx) ==
    IF ~HasAccount(instruction, 2) THEN Panic
    ELSE Ok([type |-> "Withdraw", mint |-> Account(instruction, 2)])

\* Ok(Some(Event::X(_parse_x_instruction(..)?)))
PumpfunWrap(event) == IF IsOk(event) THEN Ok(Some(event.value)) ELSE event

\* Mutant: a payload the decoder rejects is dropped like an unsupported variant.
pumpfun_parse_instruction_lenient(instruction, ctx) ==
    IF instruction.program_id # PUMPFUN_PROGRAM_ID THEN Err("Not a Pumpfun instruction.")
    ELSE
    LET unpacked == PumpfunInstruction_unpack(instruction.data) IN
    IF ~IsOk(unpacked) THEN Ok(None)
    ELSE
    LET u == unpacked.value
        v == u.discriminant
    IN  CASE v = "Initialize" -> PumpfunWrap(pumpfun_parse_initialize_instruction(instruction, ctx))
          [] v = "SetParams" -> PumpfunWrap(pumpfun_parse_set_params_instruction(instruction, ctx, u))
          [] v = "Create" -> PumpfunWrap(pumpfun_parse_create_instruction(instruction, ctx, u))
          [] v = "Buy" -> PumpfunWrap(pumpfun_parse_buy_instruction(instruction, ctx, u))
          [] v = "Sell" -> PumpfunWrap(pumpfun_parse_sell_instruction(instruction, ctx, u))
          [] v = "Withdraw" -> PumpfunWrap(pumpfun_parse_withdraw_instruction(instruction, ctx))
          [] OTHER -> Ok(None)

\* pumpfun::parse_instruction
pumpfun_parse_instruction(instruction, ctx) ==
    IF instruction.program_id # PUMPFUN_PROGRAM_ID THEN Err("Not a Pumpfun instruction.")
    ELSE
    LET unpacked == PumpfunInstruction_unpack(instruction.data) IN
    IF ~IsOk(unpacked) THEN unpacked
    ELSE
    LET u == unpacked.value
        v == u.discriminant
    IN  CASE v = "Initialize" -> PumpfunWrap(pumpfun_parse_initialize_instruction(instruction, ctx))
          [] v = "SetParams" -> PumpfunWrap(pumpfun_parse_set_params_instruction(instruction, ctx, u))
          [] v = "Create" -> PumpfunWrap(pumpfun_parse_create_instruction(instruction, ctx, u))
          [] v = "Buy" -> PumpfunWrap(pumpfun_parse_buy_instruction(instruction, ctx, u))
          [] v = "Sell" -> PumpfunWrap(pumpfun_parse_sell_instruction(instruction, ctx, u))
          [] v = "Withdraw" -> PumpfunWrap(pumpfun_parse_withdraw_instruction(instruction, ctx))
          [] OTHER -> Ok(None)

-----------------------------------------------------------------------------
(* Inputs *)

SeqsUpTo(S, n) == UNION {[1..k -> S] : k \in 0..n}

\* Token accounts the transaction's balance tables list: tokA and tokB are tracked,
\* tokC is an address the ledger does not know.
InitialLedger ==
    [a \in {"tokA", "tokB"} |->
        [address |-> a, owner |-> "user", mint |-> "mint",
         pre_balance |-> IF a = "tokA" THEN 10 ELSE 20,
         post_balance |-> IF a = "tokA" THEN 10 ELSE 20]]

PumpfunData(discriminant, complete) ==
    [discriminant |-> discriminant, complete |-> complete, amount |-> 3,
     name |-> "name", symbol |-> "symbol", uri |-> "uri", fee_recipient |-> "fee",
     initial_virtual_token_reserves |-> 41, initial_virtual_sol_reserves |-> 42,
     initial_real_token_reserves |-> 43, token_total_supply |-> 44, fee_basis_points |-> 45]

TokenData(discriminant, complete) ==
    [discriminant |-> discriminant, complete |-> complete, amount |-> 1, decimals |-> 6,
     mint_authority |-> "auth", freeze_authority |-> None, owner |-> "user", m |-> 1,
     authority_type |-> "MintTokens", new_authority |-> None]

SystemData(discriminant) == [discriminant |-> discriminant, complete |-> TRUE, lamports |-> 5]

OtherData == [discriminant |-> "opaque", complete |-> TRUE]

PumpfunAccounts == <<"mint0", "acc1", "mint", "curve", "acc4", "acc5", "user", "creator">>
ShortAccounts == <<"mint0", "acc1", "mint">>

NoLogs == Some(<< >>)
TradeLogs == Some(<<DataLog(TRUE, "Trade")>>)

SystemTransfer ==
    Instruction(SYSTEM_PROGRAM_ID, SystemData("Transfer"), <<"user", "curve">>, << >>, NoLogs)
SystemTransferLarge ==
    Instruction(SYSTEM_PROGRAM_ID, [SystemData("Transfer") EXCEPT !.lamports = 6],
                <<"user", "curve">>, << >>, NoLogs)
SystemCreate ==
    Instruction(SYSTEM_PROGRAM_ID, SystemData("CreateAccount"), <<"user", "tokA">>, << >>, NoLogs)
TokenTransfer(source, destination) ==
    Instruction(TOKEN_PROGRAM_ID, TokenData("Transfer", TRUE),
                <<source, destination, "auth">>, << >>, NoLogs)
TokenQuery ==
    Instruction(TOKEN_PROGRAM_ID, TokenData("AmountToUiAmount", TRUE), <<"mint">>, << >>, NoLogs)
TokenUnknown ==
    Instruction(TOKEN_PROGRAM_ID, TokenData("unknown", TRUE), <<"tokA">>, << >>, NoLogs)
Wrapped(children) == Instruction(OTHER_PROGRAM_ID, OtherData, << >>, children, NoLogs)

Pumpfun(discriminant, accounts, children, logs) ==
    Instruction(PUMPFUN_PROGRAM_ID, PumpfunData(discriminant, TRUE), accounts, children, logs)

\* Top-level instructions of the transactions given to pumpfun::parse_block.
PumpfunTopLevel ==
    { Pumpfun("Buy", PumpfunAccounts, <<SystemTransfer, TokenTransfer("tokA", "tokB")>>, TradeLogs),
      Pumpfun("Sell", PumpfunAccounts, <<SystemTransfer>>, NoLogs),
      Pumpfun("Withdraw", PumpfunAccounts, << >>, NoLogs),
      Pumpfun("Unsupported", PumpfunAccounts, << >>, NoLogs),
      Pumpfun("unknown", PumpfunAccounts, << >>, NoLogs),
      Wrapped(<<Pumpfun("Withdraw", PumpfunAccounts, << >>, NoLogs)>>) }

\* Top-level instructions of the transactions given to spl_token::parse_transaction.
SplTopLevel ==
    { TokenTransfer("tokA", "tokB"),
      TokenTransfer("tokA", "tokC"),
      TokenQuery,
      TokenUnknown,
      SystemTransfer,
      Pumpfun("Sell", PumpfunAccounts, <<TokenTransfer("tokB", "tokA")>>, TradeLogs) }

Transactions(top_level, signature) ==
    { [signature |-> signature, err |-> e, instructions |-> ins, token_accounts |-> InitialLedger] :
        e \in BOOLEAN, ins \in SeqsUpTo(top_level, MaxTopLevel) }

\* Instructions given directly to parse_instruction.
LogLines ==
    { TextLog, DataLog(FALSE, "Trade"), DataLog(TRUE, "Trade"), DataLog(TRUE, "Create"),
      DataLog(TRUE, "unknown") }

LogChoices == {None} \cup {Some(l) : l \in SeqsUpTo(LogLines, MaxLogLines)}

ChildInstructions ==
    { SystemTransfer, SystemTransferLarge, SystemCreate,
      TokenTransfer("tokA", "tokB"), TokenTransfer("tokB", "tokA"), TokenTransfer("tokA", "tokC"),
      TokenQuery, Wrapped(<<SystemTransfer, TokenTransfer("tokA", "tokB")>>) }

\* Children lists of a buy whose companions are each followed by a second child of
\* the same program.
CompanionLists ==
    { <<SystemTransfer, TokenTransfer("tokA", "tokB"), TokenTransfer("tokB", "tokA")>>,
      <<SystemTransfer, TokenQuery, TokenTransfer("tokA", "tokB")>>,
      <<SystemTransfer, SystemTransferLarge, TokenTransfer("tokA", "tokB")>>,
      <<SystemTransferLarge, TokenTransfer("tokB", "tokA"), SystemTransfer,
        TokenTransfer("tokA", "tokB")>> }

PumpfunInstructions ==
    { Pumpfun(d, PumpfunAccounts, c, l) :
        d \in {"Buy", "Sell"}, c \in SeqsUpTo(ChildInstructions, MaxChildren), l \in LogChoices }
    \cup
    { Instruction(PUMPFUN_PROGRAM_ID, PumpfunData(d, k), a, c, TradeLogs) :
        d \in PumpfunVariants \cup {"unknown"}, k \in BOOLEAN,
        a \in {PumpfunAccounts, ShortAccounts, << >>},
        c \in {<< >>, <<SystemTransfer, TokenTransfer("tokA", "tokB")>>} }
    \cup
    { Pumpfun("Buy", PumpfunAccounts, c, TradeLogs) : c \in CompanionLists }
    \cup {TokenQuery}

TokenAccountLists ==
    { << >>, <<"tokA">>, <<"tokC">>, <<"tokA", "tokB">>, <<"tokA", "tokB", "auth">>,
      <<"tokC", "tokB", "auth">>, <<"tokA", "tokC", "auth">>, <<"tokA", "mint", "tokB", "auth">>,
      <<"tokA", "mint", "tokC", "auth">> }

TokenInstructions ==
    { Instruction(TOKEN_PROGRAM_ID, TokenData(d, k), a, << >>, NoLogs) :
        d \in TokenVariants \cup {"unknown"}, k \in BOOLEAN, a \in TokenAccountLists }
    \cup {SystemTransfer}

-----------------------------------------------------------------------------
(* pumpfun::parse_block and pumpfun::parse_transaction *)

\* utils::transaction::get_signature
get_signature(tx) == tx.signature

Call(op, index) == [op |-> op, index |-> index]

NoContext == [signature |-> 0, token_accounts |-> << >>]
NoTransaction == [signature |-> 0, err |-> FALSE, instructions |-> << >>, token_accounts |-> << >>]

\* Mutant: the on-chain failure flag is not looked at.
transaction_failed_ignored(tx) == FALSE

\* if let Some(_) = transaction.meta.as_ref().unwrap().err
pumpfun_transaction_failed(tx) == tx.err
spl_transaction_failed(tx) == tx.err

Init ==
    /\ program \in {"pumpfun", "spl_token"}
    /\ pc = IF program = "pumpfun" THEN "block" ELSE "call"
    /\ tx_index = 0
    /\ transaction = NoTransaction
    /\ instructions = << >>
    /\ i = 1
    /\ context = NoContext
    /\ events = << >>
    /\ tx_result = None
    /\ block_events = << >>
    /\ block_result = None
    /\ calls = << >>
    /\ history = << >>
    /\ arg = << >>
    /\ ret = None

\* parse_block takes the next transaction and calls parse_transaction, which returns
\* at once for a transaction that failed on-chain and otherwise builds the context
\* and the flattened instruction list.
ParseBlockNext ==
    /\ program = "pumpfun"
    /\ pc = "block"
    /\ tx_index < MaxTransactions
    /\ \E tx \in Transactions(PumpfunTopLevel, tx_index + 1) :
        /\ transaction' = tx
        /\ tx_index' = tx_index + 1
        /\ events' = << >>
        /\ calls' = << >>
        /\ i' = 1
        /\ IF pumpfun_transaction_failed(tx)
           THEN /\ tx_result' = Some(Ok(<< >>))
                /\ pc' = "tx_return"
                /\ UNCHANGED <<context, instructions>>
           ELSE /\ tx_result' = None
                /\ pc' = "tx_loop"
                /\ context' = get_context(tx)
                /\ instructions' = flattened(tx.instructions)
    /\ UNCHANGED <<program, block_events, block_result, history, arg, ret>>

\* One iteration of the loop of pumpfun::parse_transaction.
PumpfunLoop ==
    /\ program = "pumpfun"
    /\ pc = "tx_loop"
    /\ i <= Len(instructions)
    /\ LET instruction == instructions[i]
           r == pumpfun_parse_instruction(instruction, context)
       IN  IF instruction.program_id # PUMPFUN_PROGRAM_ID
           THEN /\ i' = i + 1
                /\ UNCHANGED <<pc, events, tx_result, block_result, calls>>
           ELSE /\ calls' = Append(calls, Call("parse_instruction", i))
                /\ CASE IsOk(r) /\ r.value # None ->
                            /\ events' = Append(events, [event |-> Some(r.value[1])])
                            /\ i' = i + 1
                            /\ UNCHANGED <<pc, tx_result, block_result>>
                     [] IsOk(r) /\ r.value = None ->
                            /\ i' = i + 1
                            /\ UNCHANGED <<pc, events, tx_result, block_result>>
                     [] IsErr(r) ->
                            /\ tx_result' = Some(Err([signature |-> Some(context.signature),
                                                      message |-> r.error]))
                            /\ pc' = "tx_return"
                            /\ UNCHANGED <<i, events, block_result>>
                     [] IsPanic(r) ->
                            /\ tx_result' = Some(Panic)
                            /\ block_result' = Some(Panic)
                            /\ pc' = "done"
                            /\ UNCHANGED <<i, events>>
    /\ UNCHANGED <<program, tx_index, transaction, instructions, context,
                   block_events, history, arg, ret>>

\* The loop of pumpfun::parse_transaction is over: Ok(events).
PumpfunReturn ==
    /\ program = "pumpfun"
    /\ pc = "tx_loop"
    /\ i > Len(instructions)
    /\ tx_result' = Some(Ok(events))
    /\ pc' = "tx_return"
    /\ UNCHANGED <<program, tx_index, transaction, instructions, i, context, events,
                   block_events, block_result, calls, history, arg, ret>>

\* Mutant: an entry is pushed for every transaction, whatever its event list.
push_transaction_events_always(entries, tx, tx_events) ==
    Append(entries, [signature |-> get_signature(tx), events |-> tx_events])

\* if !events.is_empty() { block_events.push(PumpfunTransactionEvents { signature, events }) }
push_transaction_events(entries, tx, tx_events) ==
    IF tx_events # << >>
    THEN Append(entries, [signature |-> get_signature(tx), events |-> tx_events])
    ELSE entries

\* parse_block receives the result of parse_transaction: `?` returns its error,
\* a non-empty event list is pushed with the transaction's signature.
ParseBlockReceive ==
    /\ program = "pumpfun"
    /\ pc = "tx_return"
    /\ LET r == tx_result[1]
       IN  /\ history' = Append(history, [signature |-> get_signature(transaction),
                                          failed |-> transaction.err, result |-> r])
           /\ IF IsErr(r)
              THEN /\ block_result' = Some(r)
                   /\ pc' = "done"
                   /\ UNCHANGED block_events
              ELSE /\ block_events' = push_transaction_events(block_events, transaction, r.value)
                   /\ pc' = "block"
                   /\ UNCHANGED block_result
    \* the locals of parse_transaction and of the loop body are gone
    /\ transaction' = NoTransaction
    /\ instructions' = << >>
    /\ i' = 1
    /\ context' = NoContext
    /\ events' = << >>
    /\ tx_result' = None
    /\ calls' = << >>
    /\ UNCHANGED <<program, tx_index, arg, ret>>

\* block.transactions() is exhausted: Ok(block_events).
ParseBlockReturn ==
    /\ program = "pumpfun"
    /\ pc = "block"
    /\ block_result' = Some(Ok(block_events))
    /\ pc' = "done"
    /\ UNCHANGED <<program, tx_index, transaction, instructions, i, context, events,
                   tx_result, block_events, calls, history, arg, ret>>

-----------------------------------------------------------------------------
(* spl_token::parse_transaction *)

SplCall ==
    /\ program = "spl_token"
    /\ pc = "call"
    /\ \E tx \in Transactions(SplTopLevel, 1) :
        /\ transaction' = tx
        /\ tx_index' = 1
        /\ IF spl_transaction_failed(tx)
           THEN /\ tx_result' = Some(Ok(<< >>))
                /\ pc' = "done"
                /\ UNCHANGED <<context, instructions>>
           ELSE /\ tx_result' = None
                /\ pc' = "tx_loop"
                /\ context' = get_context(tx)
                /\ instructions' = flattened(tx.instructions)
    /\ UNCHANGED <<program, i, events, block_events, block_result, calls, history, arg, ret>>

\* One iteration of the loop of spl_token::parse_transaction.
SplLoop ==
    /\ program = "spl_token"
    /\ pc = "tx_loop"
    /\ i <= Len(instructions)
    /\ LET instruction == instructions[i]
           updated == update_balance(context, instruction)
           r == spl_parse_instruction(instruction, updated)
       IN  /\ context' = updated
           /\ IF instruction.program_id # TOKEN_PROGRAM_ID
              THEN /\ calls' = Append(calls, Call("update_balance", i))
                   /\ i' = i + 1
                   /\ UNCHANGED <<pc, events, tx_result>>
              ELSE /\ calls' = calls \o <<Call("update_balance", i), Call("parse_instruction", i)>>
                   /\ CASE IsOk(r) ->
                               /\ events' = Append(events, [event |-> r.value])
                               /\ i' = i + 1
                               /\ UNCHANGED <<pc, tx_result>>
                        [] IsErr(r) ->
                               /\ tx_result' = Some(Err([signature |-> None, message |-> r.error]))
                               /\ pc' = "done"
                               /\ UNCHANGED <<i, events>>
                        [] IsPanic(r) ->
                               /\ tx_result' = Some(Panic)
                               /\ pc' = "done"
                               /\ UNCHANGED <<i, events>>
    /\ UNCHANGED <<program, tx_index, transaction, instructions, block_events,
                   block_result, history, arg, ret>>

\* The loop of spl_token::parse_transaction is over: Ok(events).
SplReturn ==
    /\ program = "spl_token"
    /\ pc = "tx_loop"
    /\ i > Len(instructions)
    /\ tx_result' = Some(Ok(events))
    /\ pc' = "done"
    /\ UNCHANGED <<program, tx_index, transaction, instructions, i, context, events,
                   block_events, block_result, calls, history, arg, ret>>

Next ==
    \/ ParseBlockNext
    \/ PumpfunLoop
    \/ PumpfunReturn
    \/ ParseBlockReceive
    \/ ParseBlockReturn
    \/ SplCall
    \/ SplLoop
    \/ SplReturn

Spec == Init /\ [][Next]_vars

-----------------------------------------------------------------------------
(* parse_instruction called directly on one instruction *)

InitInstruction ==
    /\ program \in {"pumpfun", "spl_token"}
    /\ pc = "instruction"
    /\ arg \in (IF program = "pumpfun" THEN PumpfunInstructions ELSE TokenInstructions)
    /\ ret = None
    /\ context = [signature |-> 1, token_accounts |-> InitialLedger]
    /\ tx_index = 0
    /\ transaction = NoTransaction
    /\ instructions = << >>
    /\ i = 1
    /\ events = << >>
    /\ tx_result = None
    /\ block_events = << >>
    /\ block_result = None
    /\ calls = << >>
    /\ history = << >>

PumpfunParseInstruction ==
    /\ program = "pumpfun"
    /\ pc = "instruction"
    /\ ret = None
    /\ ret' = Some(pumpfun_parse_instruction(arg, context))
    /\ UNCHANGED <<program, tx_index, transaction, pc, instructions, i, context,
                   events, tx_result, block_events, block_result, calls, history, arg>>

SplParseInstruction ==
    /\ program = "spl_token"
    /\ pc = "instruction"
    /\ ret = None
    /\ ret' = Some(spl_parse_instruction(arg, context))
    /\ UNCHANGED <<program, tx_index, transaction, pc, instructions, i, context,
                   events, tx_result, block_events, block_result, calls, history, arg>>

NextInstruction ==
    \/ PumpfunParseInstruction
    \/ SplParseInstruction

SpecInstruction == InitInstruction /\ [][NextInstruction]_vars

-----------------------------------------------------------------------------
(* Vocabulary of the properties *)

Last(seq) == seq[Len(seq)]

TargetProgram == IF program = "pumpfun" THEN PUMPFUN_PROGRAM_ID ELSE TOKEN_PROGRAM_ID

\* A transaction is being parsed, or its parse has just ended, and its locals are live.
InTransaction == transaction # NoTransaction /\ ~transaction.err

\* parse_instruction has been called on the k-th instruction of flattened().
Decoded(k) == \E j \in 1..Len(calls) : calls[j] = Call("parse_instruction", k)

\* The loop has visited the k-th instruction of flattened().
Visited(k) == k < i \/ Decoded(k)

\* parse_transaction has ended with something else than Ok.
Aborted == tx_result # None /\ ~IsOk(tx_result[1])

\* parse_transaction returned an error that carries the transaction's signature.
ErrorWithSignature ==
    /\ tx_result # None
    /\ IsErr(tx_result[1])
    /\ tx_result[1].error.signature = Some(transaction.signature)

HasDiscriminant(instruction, pid, ds) ==
    /\ instruction.program_id = pid
    /\ instruction.data.discriminant \in ds
    /\ instruction.data.complete

IsBuy(instruction) == HasDiscriminant(instruction, PUMPFUN_PROGRAM_ID, {"Buy"})
IsSell(instruction) == HasDiscriminant(instruction, PUMPFUN_PROGRAM_ID, {"Sell"})

NoChildOf(instruction, pid) ==
    \A k \in 1..Len(instruction.inner_instructions) :
        instruction.inner_instructions[k].program_id # pid

UnknownDiscriminant(instruction) ==
    \/ /\ instruction.program_id = PUMPFUN_PROGRAM_ID
       /\ instruction.data.discriminant \notin PumpfunVariants
    \/ /\ instruction.program_id = TOKEN_PROGRAM_ID
       /\ instruction.data.discriminant \notin TokenVariants

-----------------------------------------------------------------------------
(* C1 *)

UpdatesOf(k) == {j \in 1..Len(calls) : calls[j] = Call("update_balance", k)}

\* C1: in both orchestrators, for every instruction of a transaction that did not
\* fail on-chain, update_balance is invoked exactly once, in flattened order, before
\* the instruction is decoded, whatever program owns the instruction.
C1_UpdateBalanceOncePerInstruction ==
    InTransaction =>
        \A k \in 1..Len(instructions) :
            Visited(k) =>
                /\ Cardinality(UpdatesOf(k)) = 1
                /\ \A j \in 1..Len(calls) :
                       calls[j] = Call("parse_instruction", k) => \E u \in UpdatesOf(k) : u < j
                /\ \A k2 \in 1..(k - 1) : \A u \in UpdatesOf(k) : \E u2 \in UpdatesOf(k2) : u2 < u

-----------------------------------------------------------------------------
(* C2 *)

\* C2: for a transaction whose on-chain failure flag is set, parse_transaction
\* returns Ok with an empty event list, and nothing is flattened, decoded or applied
\* to the ledger, whatever instructions the transaction holds.
C2_FailedTransactionYieldsNothing ==
    (transaction # NoTransaction /\ transaction.err) =>
        /\ tx_result = Some(Ok(<< >>))
        /\ instructions = << >>
        /\ calls = << >>
        /\ events = << >>
        /\ context = NoContext

C2_Witness ==
    /\ transaction # NoTransaction
    /\ transaction.err
    /\ \E k \in 1..Len(transaction.instructions) : UnknownDiscriminant(transaction.instructions[k])
    /\ tx_result = Some(Ok(<< >>))

-----------------------------------------------------------------------------
(* C3 *)

BuyWithoutSystemChild ==
    /\ pc = "instruction"
    /\ program = "pumpfun"
    /\ ret # None
    /\ IsBuy(arg)
    /\ NoChildOf(arg, SYSTEM_PROGRAM_ID)

\* C3 as stated: a buy none of whose direct children is owned by the system program
\* yields an error result.
C3_BuyWithoutSystemChildIsError == BuyWithoutSystemChild => IsErr(ret[1])

\* C3: a buy none of whose direct children is owned by the system program never
\* yields a SwapEvent: it yields an error result when it has the seven accounts the
\* buy schema reads, and fails on the account index when it has fewer, whether or
\* not a token transfer child or a trade log is present.
C3_BuyWithoutSystemChild ==
    BuyWithoutSystemChild =>
        IF Len(arg.accounts) >= 7 THEN IsErr(ret[1]) ELSE IsPanic(ret[1])

C3_Witness ==
    /\ BuyWithoutSystemChild
    /\ ~NoChildOf(arg, TOKEN_PROGRAM_ID)
    /\ TradeOf(arg) # None
    /\ IsErr(ret[1])

-----------------------------------------------------------------------------
(* C4 *)

\* C4: a buy or sell without a direct child owned by the token program yields an
\* error result, which parse_transaction returns as an error carrying the
\* transaction's signature; it neither produces an event nor ends any other way.
C4_MissingTokenChildIsError ==
    (InTransaction /\ program = "pumpfun") =>
        \A k \in 1..Len(instructions) :
            ( /\ Decoded(k)
              /\ IsBuy(instructions[k]) \/ IsSell(instructions[k])
              /\ NoChildOf(instructions[k], TOKEN_PROGRAM_ID) )
            => ErrorWithSignature

-----------------------------------------------------------------------------
(* C5 *)

DecodedUnknown(k) ==
    /\ Decoded(k)
    /\ instructions[k].program_id = TargetProgram
    /\ UnknownDiscriminant(instructions[k])

-----------------------------------------------------------------------------
(* C6 *)

UnmappedVariant(instruction) ==
    \/ HasDiscriminant(instruction, TOKEN_PROGRAM_ID,
                       {"AmountToUiAmount", "UiAmountToAmount", "GetAccountDataSize"})
    \/ HasDiscriminant(instruction, PUMPFUN_PROGRAM_ID, {"Unsupported"})

\* C6: a recognized but unmapped variant of the target program adds no entry to the
\* event list: the list has one entry per instruction that produced an event, and
\* no entry has an absent payload.
C6_UnmappedVariantAddsNoEntry ==
    InTransaction =>
        /\ \A j \in 1..Len(events) : events[j].event # None
        /\ Len(events) =
              Cardinality({k \in 1..Len(instructions) :
                              /\ k < i
                              /\ Decoded(k)
                              /\ ~UnmappedVariant(instructions[k])})

-----------------------------------------------------------------------------
(* C7 *)

\* C7: in both orchestrators, when synthesizing an event fails, no later instruction
\* is decoded, no events are returned and the returned error carries the signature.
C7_FailureStopsAndCarriesSignature ==
    (InTransaction /\ Aborted) =>
        /\ ErrorWithSignature
        /\ \A k \in (i + 1)..Len(instructions) : ~Visited(k)

-----------------------------------------------------------------------------
(* C8 *)

IsExtractableDataLog(log) == log.kind = "Data" /\ log.decodable

\* The first data line of the logs decodes to a trade record.
FirstDataLineIsTrade(instruction) ==
    /\ instruction.logs # None
    /\ LET data_lines == SelectSeq(instruction.logs[1], IsDataLog)
       IN  /\ data_lines # << >>
           /\ data_lines[1].decodable
           /\ data_lines[1].discriminant = "Trade"

\* The first data line whose bytes can be extracted decodes to a trade record.
FirstExtractableDataLineIsTrade(instruction) ==
    /\ instruction.logs # None
    /\ LET data_lines == SelectSeq(instruction.logs[1], IsExtractableDataLog)
       IN  /\ data_lines # << >>
           /\ data_lines[1].discriminant = "Trade"

ReservesSet(event) ==
    /\ event.virtual_sol_reserves = Some(TradeRecord.virtual_sol_reserves)
    /\ event.virtual_token_reserves = Some(TradeRecord.virtual_token_reserves)
    /\ event.real_sol_reserves = Some(TradeRecord.real_sol_reserves)
    /\ event.real_token_reserves = Some(TradeRecord.real_token_reserves)

ReservesUnset(event) ==
    /\ event.virtual_sol_reserves = None
    /\ event.virtual_token_reserves = None
    /\ event.real_sol_reserves = None
    /\ event.real_token_reserves = None

IsTrackedTransfer(instruction) ==
    /\ HasDiscriminant(instruction, TOKEN_PROGRAM_ID, {"Transfer"})
    /\ Len(instruction.accounts) >= 3
    /\ instruction.accounts[1] \in DOMAIN InitialLedger
    /\ instruction.accounts[2] \in DOMAIN InitialLedger

FirstChildOf(instruction, pid) ==
    LET owned == SelectSeq(instruction.inner_instructions, LAMBDA x : x.program_id = pid)
    IN  IF owned = << >> THEN None ELSE Some(owned[1])

\* The companion children buy and sell need are there and are transfers, and the
\* instruction has the accounts its schema reads.
MandatoryChildrenPresent(instruction) ==
    /\ Len(instruction.accounts) >= 7
    /\ FirstChildOf(instruction, TOKEN_PROGRAM_ID) # None
    /\ IsTrackedTransfer(FirstChildOf(instruction, TOKEN_PROGRAM_ID)[1])
    /\ IsBuy(instruction) =>
          /\ FirstChildOf(instruction, SYSTEM_PROGRAM_ID) # None
          /\ HasDiscriminant(FirstChildOf(instruction, SYSTEM_PROGRAM_ID)[1],
                             SYSTEM_PROGRAM_ID, {"Transfer"})

\* The fields of the event that come from the accounts, the payload and the transfers.
OtherFieldsPopulated(instruction, event) ==
    LET token_transfer == FirstChildOf(instruction, TOKEN_PROGRAM_ID)[1]
    IN  /\ event.type = "Swap"
        /\ event.user = instruction.accounts[7]
        /\ event.mint = instruction.accounts[3]
        /\ event.bonding_curve = instruction.accounts[4]
        /\ event.token_amount = instruction.data.amount
        /\ IsBuy(instruction) =>
              /\ event.sol_amount =
                    Some(FirstChildOf(instruction, SYSTEM_PROGRAM_ID)[1].data.lamports)
              /\ event.user_token_pre_balance =
                    InitialLedger[token_transfer.accounts[2]].pre_balance
        /\ IsSell(instruction) =>
              event.user_token_pre_balance = InitialLedger[token_transfer.accounts[1]].pre_balance

SwapParsed ==
    /\ pc = "instruction"
    /\ program = "pumpfun"
    /\ ret # None
    /\ IsBuy(arg) \/ IsSell(arg)

-----------------------------------------------------------------------------
(* C9 *)

NonEmptyResults(h) == SelectSeq(h, LAMBDA x : IsOk(x.result) /\ x.result.value # << >>)

\* C9: parse_block returns either Ok with the events of every transaction of the
\* block, or an error that names the first transaction whose processing failed; in
\* that case no later transaction has been processed and no events are returned.
C9_BlockIsAllOrFirstError ==
    (program = "pumpfun" /\ pc = "done") =>
        /\ block_result # None
        /\ \/ /\ IsOk(block_result[1])
              /\ Len(history) = tx_index
              /\ \A k \in 1..Len(history) : IsOk(history[k].result)
              /\ block_result[1].value =
                    [k \in 1..Len(NonEmptyResults(history)) |->
                        [signature |-> NonEmptyResults(history)[k].signature,
                         events |-> NonEmptyResults(history)[k].result.value]]
           \/ /\ IsErr(block_result[1])
              /\ Len(history) = tx_index
              /\ \A k \in 1..(Len(history) - 1) : IsOk(history[k].result)
              /\ IsErr(Last(history).result)
              /\ block_result[1].error.signature = Some(Last(history).signature)

-----------------------------------------------------------------------------
(* C10 *)

\* A ledger lookup the event schema of the instruction requires misses.
LookupMisses(instruction) ==
    \/ /\ HasDiscriminant(instruction, TOKEN_PROGRAM_ID, {"Transfer"})
       /\ Len(instruction.accounts) >= 3
       /\ \/ instruction.accounts[1] \notin DOMAIN context.token_accounts
          \/ instruction.accounts[2] \notin DOMAIN context.token_accounts
    \/ /\ HasDiscriminant(instruction, TOKEN_PROGRAM_ID, {"InitializeAccount"})
       /\ Len(instruction.accounts) >= 1
       /\ instruction.accounts[1] \notin DOMAIN context.token_accounts
    \/ /\ IsBuy(instruction) \/ IsSell(instruction)
       /\ Len(instruction.accounts) >= 7
       /\ IsBuy(instruction) =>
              /\ FirstChildOf(instruction, SYSTEM_PROGRAM_ID) # None
              /\ HasDiscriminant(FirstChildOf(instruction, SYSTEM_PROGRAM_ID)[1],
                                 SYSTEM_PROGRAM_ID, {"Transfer"})
       /\ FirstChildOf(instruction, TOKEN_PROGRAM_ID) # None
       /\ LET token_transfer == FirstChildOf(instruction, TOKEN_PROGRAM_ID)[1]
          IN  /\ HasDiscriminant(token_transfer, TOKEN_PROGRAM_ID, {"Transfer"})
              /\ Len(token_transfer.accounts) >= 3
              /\ \/ token_transfer.accounts[1] \notin DOMAIN context.token_accounts
                 \/ token_transfer.accounts[2] \notin DOMAIN context.token_accounts

\* C10: when a ledger lookup the event schema requires does not find the address,
\* parse_transaction returns an error that carries the signature; no event is
\* produced for the instruction and processing ends in no other way.
C10_LookupMissIsError ==
    InTransaction =>
        \A k \in 1..Len(instructions) :
            (Decoded(k) /\ instructions[k].program_id = TargetProgram
                        /\ LookupMisses(instructions[k]))
            => ErrorWithSignature

-----------------------------------------------------------------------------
(* C11 *)

\* The instruction is owned by the target program and decodes to a variant that
\* parse_instruction maps to an event.
SupportedVariant(instruction) ==
    /\ instruction.program_id = TargetProgram
    /\ instruction.data.complete
    /\ IF program = "pumpfun"
       THEN instruction.data.discriminant \in PumpfunVariants \ {"Unsupported"}
       ELSE instruction.data.discriminant \in
                TokenVariants \ {"AmountToUiAmount", "GetAccountDataSize", "UiAmountToAmount"}

\* The event variant parse_instruction maps the instruction's variant to.
EventTypeOf(instruction) ==
    LET v == instruction.data.discriminant
    IN  CASE v \in {"Buy", "Sell"} -> "Swap"
          [] v = "InitializeMint2" -> "InitializeMint"
          [] v \in {"InitializeAccount2", "InitializeAccount3"} -> "InitializeAccount"
          [] v = "InitializeMultisig2" -> "InitializeMultisig"
          [] v = "TransferChecked" -> "Transfer"
          [] v = "ApproveChecked" -> "Approve"
          [] v = "MintToChecked" -> "MintTo"
          [] v = "BurnChecked" -> "Burn"
          [] OTHER -> v

\* C11: when parse_transaction returns Ok for a transaction that did not fail
\* on-chain, the returned events are, one for one and in the same order, the events
\* of the instructions of flattened() that the target program owns and that decode
\* to a supported variant; no other instruction contributes an entry.
C11_EventsMatchSupportedInstructions ==
    (InTransaction /\ tx_result # None /\ IsOk(tx_result[1])) =>
        LET supported == SelectSeq(instructions, SupportedVariant)
            returned == tx_result[1].value
        IN  /\ Len(returned) = Len(supported)
            /\ \A k \in 1..Len(returned) :
                  /\ returned[k].event # None
                  /\ returned[k].event[1].type = EventTypeOf(supported[k])

-----------------------------------------------------------------------------
(* C12 *)

\* parse_instruction has returned for a create instruction.
CreateParsed ==
    /\ pc = "instruction"
    /\ program = "pumpfun"
    /\ ret # None
    /\ HasDiscriminant(arg, PUMPFUN_PROGRAM_ID, {"Create"})

\* C12: for a create instruction with a complete payload and its eight accounts the
\* CreateEvent has user = account[7], mint = account[0], bonding_curve = account[2],
\* associated_bonding_curve = account[2], metadata = account[6] and the payload's
\* name, symbol and uri; every CreateEvent has bonding_curve equal to
\* associated_bonding_curve.
C12_CreateEventFields ==
    /\ (CreateParsed /\ Len(arg.accounts) >= 8) =>
          /\ IsOk(ret[1])
          /\ ret[1].value =
                Some([type |-> "Create",
                      user |-> arg.accounts[8],
                      name |-> arg.data.name,
                      symbol |-> arg.data.symbol,
                      uri |-> arg.data.uri,
                      mint |-> arg.accounts[1],
                      bonding_curve |-> arg.accounts[3],
                      associated_bonding_curve |-> arg.accounts[3],
                      metadata |-> arg.accounts[7]])
    /\ (CreateParsed /\ IsOk(ret[1])) =>
          /\ ret[1].value # None
          /\ ret[1].value[1].type = "Create"
          /\ ret[1].value[1].bonding_curve = ret[1].value[1].associated_bonding_curve

C12_Witness ==
    /\ CreateParsed
    /\ Len(arg.accounts) >= 8
    /\ arg.accounts[3] # arg.accounts[4]
    /\ IsOk(ret[1])
    /\ ret[1].value[1].associated_bonding_curve = arg.accounts[3]
    /\ ret[1].value[1].user = arg.accounts[8]

-----------------------------------------------------------------------------
(* C13 *)

IsTokenTransfer(instruction) ==
    HasDiscriminant(instruction, TOKEN_PROGRAM_ID, {"Transfer", "TransferChecked"})

\* Position (from 1) of the destination in the accounts of a token transfer.
DestinationAt(instruction) ==
    IF instruction.data.discriminant = "TransferChecked" THEN 3 ELSE 2

\* Some direct child after the first one owned by pid is owned by pid as well.
HasLaterChildOf(instruction, pid) ==
    Len(SelectSeq(instruction.inner_instructions, LAMBDA x : x.program_id = pid)) >= 2

\* C13: buy and sell take as companion the first direct child, in execution order,
\* owned by the companion program. A SwapEvent is produced only when that child is
\* a transfer, and its transfer-derived fields are those of that child: deeper
\* descendants and later matching children are never taken, so the instruction
\* fails when its first token-program child is not a transfer, whatever follows.
C13_FirstDirectChildIsCompanion ==
    (SwapParsed /\ IsOk(ret[1])) =>
        LET event == ret[1].value[1]
            token_child == FirstChildOf(arg, TOKEN_PROGRAM_ID)
            system_child == FirstChildOf(arg, SYSTEM_PROGRAM_ID)
        IN  /\ token_child # None
            /\ IsTokenTransfer(token_child[1])
            /\ event.user_token_pre_balance =
                  IF IsBuy(arg)
                  THEN context.token_accounts[
                           token_child[1].accounts[DestinationAt(token_child[1])]].pre_balance
                  ELSE context.token_accounts[token_child[1].accounts[1]].pre_balance
            /\ IsBuy(arg) =>
                  /\ system_child # None
                  /\ HasDiscriminant(system_child[1], SYSTEM_PROGRAM_ID, {"Transfer"})
                  /\ event.sol_amount = Some(system_child[1].data.lamports)

C13_Witness ==
    /\ SwapParsed
    /\ IsSell(arg)
    /\ Len(arg.inner_instructions) = 2
    /\ arg.inner_instructions[1] = TokenQuery
    /\ IsTokenTransfer(arg.inner_instructions[2])
    /\ IsErr(ret[1])

-----------------------------------------------------------------------------
(* C14 *)

\* The ledger after update_balance has been applied to the instructions in order.
RECURSIVE LedgerAfter(_, _)
LedgerAfter(ctx, instrs) ==
    IF instrs = << >> THEN ctx
    ELSE LedgerAfter(update_balance(ctx, Head(instrs)), Tail(instrs))

\* Position in flattened() of the c-th direct child of the k-th instruction.
PositionOfChild(k, c) ==
    k + Len(flattened(SubSeq(instructions[k].inner_instructions, 1, c - 1))) + 1

\* Position in flattened() of the first direct child of the k-th instruction that
\* the token program owns.
TokenChildPosition(k) ==
    PositionOfChild(k, FindFirst(instructions[k].inner_instructions, IsTokenInstruction))

\* Balance of the account just before the transfer at position p of flattened()
\* moved it: what a lookup made at the transfer reports as the balance before.
BalanceBeforeTransfer(p, account) ==
    LedgerAfter(get_context(transaction), SubSeq(instructions, 1, p))
        .token_accounts[account].pre_balance

\* Position in flattened() of the instruction the j-th returned event comes from.
SourceOfEvent(j) ==
    LET supported == {k \in 1..Len(instructions) : SupportedVariant(instructions[k])}
    IN  CHOOSE k \in supported : Cardinality({m \in supported : m < k}) = j - 1

\* C14: a SwapEvent of a sell has direction "sol", sol_amount equal to the trade
\* record's settled amount when the logs yield a trade record and unset otherwise,
\* and user_token_pre_balance equal to the balance the source account of the
\* token-transfer child had before that transfer; a SwapEvent of a buy has direction
\* "token", sol_amount set to the lamports of the system-transfer child, and
\* user_token_pre_balance equal to the balance the destination account of the
\* token-transfer child had before that transfer.
C14_SwapEventFields ==
    (program = "pumpfun" /\ InTransaction /\ tx_result # None /\ IsOk(tx_result[1])) =>
        \A j \in 1..Len(tx_result[1].value) :
            LET k == SourceOfEvent(j)
                instruction == instructions[k]
                event == tx_result[1].value[j].event[1]
                token_child == FirstChildOf(instruction, TOKEN_PROGRAM_ID)[1]
            IN  /\ IsSell(instruction) =>
                      /\ event.direction = "sol"
                      /\ event.sol_amount =
                            IF FirstExtractableDataLineIsTrade(instruction)
                            THEN Some(TradeRecord.sol_amount) ELSE None
                      /\ event.user_token_pre_balance =
                            BalanceBeforeTransfer(TokenChildPosition(k), token_child.accounts[1])
                /\ IsBuy(instruction) =>
                      /\ event.direction = "token"
                      /\ event.sol_amount =
                            Some(FirstChildOf(instruction, SYSTEM_PROGRAM_ID)[1].data.lamports)
                      /\ event.user_token_pre_balance =
                            BalanceBeforeTransfer(TokenChildPosition(k),
                                                  token_child.accounts[DestinationAt(token_child)])

-----------------------------------------------------------------------------
(* C15 *)

\* The entries of the block result that carry the signature of the k-th transaction.
EntriesOf(k) ==
    {e \in 1..Len(block_events) : block_events[e].signature = history[k].signature}

\* C15: every entry of the result of parse_block has a non-empty event list and is
\* the entry of one transaction that did not fail on-chain, with that transaction's
\* signature and events; a transaction that failed on-chain or produced no events
\* has no entry, every other one has exactly one, and the entries are in block
\* order. parse_block returns these entries when it returns Ok.
C15_EntriesAreNonEmptyAndInBlockOrder ==
    program = "pumpfun" =>
        /\ \A e \in 1..Len(block_events) :
              /\ block_events[e].events # << >>
              /\ \E k \in 1..Len(history) :
                    /\ history[k].signature = block_events[e].signature
                    /\ ~history[k].failed
                    /\ history[k].result = Ok(block_events[e].events)
        /\ \A k \in 1..Len(history) :
              IF history[k].failed \/ ~IsOk(history[k].result) \/ history[k].result.value = << >>
              THEN EntriesOf(k) = {}
              ELSE Cardinality(EntriesOf(k)) = 1
        /\ \A k1, k2 \in 1..Len(history) :
              \A e1 \in EntriesOf(k1), e2 \in EntriesOf(k2) : k1 < k2 => e1 < e2
        /\ (block_result # None /\ IsOk(block_result[1])) =>
              block_result[1].value = block_events

C15_Witness ==
    /\ program = "pumpfun"
    /\ pc = "done"
    /\ block_result # None
    /\ IsOk(block_result[1])
    /\ Len(history) = 2
    /\ history[1].failed \/ history[1].result = Ok(<< >>)
    /\ Len(block_result[1].value) = 1
    /\ block_result[1].value[1].signature = history[2].signature

====
